---------------------------- MODULE Spec2Model ----------------------------
(***************************************************************************)
(* A model of the image converter: the input validation, the resize        *)
(* arithmetic, the strategy registry, the quality analysis, the per-format *)
(* conversion strategies and the process pipeline of                       *)
(* ImageProcessorService.                                                  *)
(*                                                                         *)
(* Numbers.  Qualities are integer percents (0.92 is 92).  The complexity  *)
(* score is an exact fraction num/den.  A compression ratio is an integer  *)
(* number of hundredths of a percent.  JavaScript strings that the code    *)
(* splits, lower-cases or prefix-tests are sequences of one-character      *)
(* strings; enum values that the code only compares are TLA+ strings.      *)
(***************************************************************************)
EXTENDS Integers, Sequences, FiniteSets, TLC

VARIABLES
    vIn, vOut,              \* isValidImage: the file argument, the returned boolean
    rsIn, rsOut,            \* shouldResize/resizeImage: bitmap and options, the outcome
    strategies,             \* ConversionStrategyFactory.strategies
    registerCalls,          \* number of registerStrategy calls so far
    lookup,                 \* the outcome of the last getStrategy call
    qIn, qOut,              \* calculateOptimalQuality: the bitmap, the returned quality
    cxIn, cxOut,            \* calculateImageComplexity: the sampled region, the score
    cvIn, cvOut,            \* strategy.convert: strategy and arguments, the settlement
    pc,                     \* process: the await the call is suspended at, or its end
    pFile, pOptions,        \* process: its arguments file and options
    optimizer,              \* process: whether the service was built with an optimizer
    heap,                   \* the ImageBitmaps created so far, by handle
    pImageBitmap,           \* process: const imageBitmap (a handle, 0 before line 43)
    pResizedBitmap,         \* process: const resizedBitmap (a handle, 0 before line 46)
    pCanvas,                \* resizeImage: the canvas of lines 193-195
    pStrategy, pQuality,    \* process: the locals strategy and quality (lines 51, 56)
    resultWidth, resultHeight,  \* process: the locals of lines 62-63
    converted,              \* the settlement of strategy.convert
    resultBlob,             \* process: const resultBlob
    result, error,          \* what the promise of process settles with
    chCanvas, chBefore,     \* applyPsychovisualOptimization: the canvas pixels, their earlier contents
    selectedFile, metadata, \* ImageConverter: useState (lines 23-24)
    processingResult,       \* ImageConverter: useState (lines 25-26)
    isProcessing, uiError,  \* ImageConverter: useState isProcessing and error (lines 27-28)
    pendingMetadata,        \* the extractMetadata calls awaited at line 54, by file
    pendingProcess,         \* the process calls awaited at line 77, by file and options
    convertedFile           \* the file whose conversion processingResult holds

vVars == <<vIn, vOut>>

rsVars == <<rsIn, rsOut>>

fVars == <<strategies, registerCalls, lookup>>

qVars == <<qIn, qOut>>

cxVars == <<cxIn, cxOut>>

cvVars == <<cvIn, cvOut>>

pVars ==
    <<pc, pFile, pOptions, optimizer, heap, pImageBitmap, pResizedBitmap, pCanvas,
      pStrategy, pQuality, resultWidth, resultHeight, converted, resultBlob,
      result, error>>

chVars == <<chCanvas, chBefore>>

uiVars ==
    <<selectedFile, metadata, processingResult, isProcessing, uiError,
      pendingMetadata, pendingProcess, convertedFile>>

vars == <<vVars, rsVars, fVars, qVars, cxVars, cvVars, pVars, chVars, uiVars>>

\* What the actions of one part leave unchanged: the variables of the others.
OtherThanV == <<rsVars, fVars, qVars, cvVars, pVars, cxVars, chVars, uiVars>>

OtherThanRs == <<vVars, fVars, qVars, cvVars, pVars, cxVars, chVars, uiVars>>

OtherThanF == <<vVars, rsVars, qVars, cvVars, pVars, cxVars, chVars, uiVars>>

OtherThanQ == <<vVars, rsVars, fVars, cvVars, pVars, cxVars, chVars, uiVars>>

OtherThanCv == <<vVars, rsVars, fVars, qVars, pVars, cxVars, chVars, uiVars>>

OtherThanP == <<vVars, rsVars, fVars, qVars, cvVars, cxVars, chVars, uiVars>>

OtherThanCx == <<vVars, rsVars, fVars, qVars, cvVars, pVars, chVars, uiVars>>

OtherThanCh == <<vVars, rsVars, fVars, qVars, cxVars, cvVars, pVars, uiVars>>

OtherThanUi == <<vVars, rsVars, fVars, qVars, cxVars, cvVars, pVars, chVars>>

\* An optional value is a sequence: empty when absent, <<v>> when present.
None == <<>>

Some(v) == <<v>>

(***************************************************************************)
(* Generic arithmetic                                                      *)
(***************************************************************************)
Min(a, b) == IF a < b THEN a ELSE b

Max(a, b) == IF a > b THEN a ELSE b

Abs(a) == IF a < 0 THEN 0 - a ELSE a

RECURSIVE GCD(_, _)
GCD(a, b) == IF b = 0 THEN a ELSE GCD(b, a % b)

RECURSIVE IsPowerOfTwo(_)
IsPowerOfTwo(n) == IF n = 1 THEN TRUE ELSE IF n % 2 = 1 THEN FALSE ELSE IsPowerOfTwo(n \div 2)

\* Math.round of the exact quotient p/q (p >= 0, q > 0): nearest integer, a tie goes up.
MathRound(p, q) == (2 * p + q) \div (2 * q)

(***************************************************************************)
(* Strings as character sequences                                          *)
(***************************************************************************)
UpperCaseLetters ==
    <<"A", "B", "C", "D", "E", "F", "G", "H", "I", "J", "K", "L", "M",
      "N", "O", "P", "Q", "R", "S", "T", "U", "V", "W", "X", "Y", "Z">>

LowerCaseLetters ==
    <<"a", "b", "c", "d", "e", "f", "g", "h", "i", "j", "k", "l", "m",
      "n", "o", "p", "q", "r", "s", "t", "u", "v", "w", "x", "y", "z">>

\* String.prototype.toLowerCase, one character at a time.
toLowerCase(s) ==
    [i \in 1..Len(s) |->
        IF \E k \in 1..Len(UpperCaseLetters) : UpperCaseLetters[k] = s[i]
        THEN LowerCaseLetters[CHOOSE k \in 1..Len(UpperCaseLetters) : UpperCaseLetters[k] = s[i]]
        ELSE s[i]]

\* String.prototype.split('.'): the pieces between the dots, empty pieces kept.
RECURSIVE split(_)
split(s) ==
    IF \A i \in 1..Len(s) : s[i] # "."
    THEN <<s>>
    ELSE LET d == CHOOSE i \in 1..Len(s) : s[i] = "." /\ \A j \in 1..(i - 1) : s[j] # "."
         IN  <<SubSeq(s, 1, d - 1)>> \o split(SubSeq(s, d + 1, Len(s)))

\* Array.prototype.pop on the (never empty) result of split.
pop(parts) == parts[Len(parts)]

\* String.prototype.startsWith.
startsWith(s, prefix) == Len(s) >= Len(prefix) /\ SubSeq(s, 1, Len(prefix)) = prefix

RECURSIVE JoinWithDots(_)
JoinWithDots(parts) ==
    IF Len(parts) = 1 THEN parts[1] ELSE parts[1] \o <<".">> \o JoinWithDots(Tail(parts))

(***************************************************************************)
(* image.types.ts                                                          *)
(***************************************************************************)
JPEG == "image/jpeg"
PNG == "image/png"
WEBP == "image/webp"
AVIF == "image/avif"
GIF == "image/gif"
BMP == "image/bmp"

ImageFormat == {JPEG, PNG, WEBP, AVIF, GIF, BMP}

ExtJpg == <<"j", "p", "g">>
ExtJpeg == <<"j", "p", "e", "g">>
ExtPng == <<"p", "n", "g">>
ExtWebp == <<"w", "e", "b", "p">>
ExtAvif == <<"a", "v", "i", "f">>
ExtGif == <<"g", "i", "f">>
ExtBmp == <<"b", "m", "p">>

\* The record literal IMAGE_EXTENSIONS: its own keys and their values.
IMAGE_EXTENSIONS ==
    [e \in {ExtJpg, ExtJpeg, ExtPng, ExtWebp, ExtAvif, ExtGif, ExtBmp} |->
        CASE e = ExtJpg -> JPEG
          [] e = ExtJpeg -> JPEG
          [] e = ExtPng -> PNG
          [] e = ExtWebp -> WEBP
          [] e = ExtAvif -> AVIF
          [] e = ExtGif -> GIF
          [] e = ExtBmp -> BMP]

(***************************************************************************)
(* ImageProcessorService.isValidImage                                      *)
(***************************************************************************)
KeyConstructor == <<"c", "o", "n", "s", "t", "r", "u", "c", "t", "o", "r">>
KeyProto == <<"_", "_", "p", "r", "o", "t", "o", "_", "_">>
KeyToString == <<"t", "o", "S", "t", "r", "i", "n", "g">>
KeyValueOf == <<"v", "a", "l", "u", "e", "O", "f">>
KeyHasOwnProperty ==
    <<"h", "a", "s", "O", "w", "n", "P", "r", "o", "p", "e", "r", "t", "y">>

\* IMAGE_EXTENSIONS is an object literal, so it inherits from Object.prototype,
\* and the `in` operator of line 131 also finds the inherited property names.
ObjectPrototypeKeys ==
    {KeyConstructor, KeyProto, KeyToString, KeyValueOf, KeyHasOwnProperty}

\* key in obj
InOperator(key, obj) == key \in (DOMAIN obj) \cup ObjectPrototypeKeys

ImagePrefix == <<"i", "m", "a", "g", "e", "/">>

\* file.name.split('.').pop()?.toLowerCase() || ''
FileExtension(file) == toLowerCase(pop(split(file.name)))

isValidImage(file) ==
    IF ~startsWith(file.type, ImagePrefix)
    THEN FALSE
    ELSE InOperator(FileExtension(file), IMAGE_EXTENSIONS)

(***************************************************************************)
(* Files offered to isValidImage                                           *)
(***************************************************************************)
MaxSegments == 2

NameSegments ==
    { <<>>, <<"a">>, ExtJpg, ExtJpeg, ExtPng, ExtWebp, ExtAvif, ExtGif, ExtBmp,
      <<"P", "N", "G">>, <<"J", "p", "g">>, <<"J", "P", "E", "G">>,
      <<"t", "x", "t">>, <<"s", "v", "g">>, <<"p", "n", "g", "x">>,
      KeyConstructor, KeyProto, KeyToString }

FileNames ==
    { JoinWithDots(parts) :
        parts \in UNION { [1..n -> NameSegments] : n \in 1..MaxSegments } }

TypeImagePng == ImagePrefix \o ExtPng
TypeImageSvg == ImagePrefix \o <<"s", "v", "g", "+", "x", "m", "l">>
TypeTextPlain == <<"t", "e", "x", "t", "/", "p", "l", "a", "i", "n">>
TypeBareImage == <<"i", "m", "a", "g", "e">>
TypeNested == <<"x", "/">> \o ImagePrefix \o ExtPng

FileTypes == {TypeImagePng, TypeImageSvg, TypeTextPlain, TypeBareImage, TypeNested, <<>>}

ValidateFiles == [name : FileNames, type : FileTypes]

(***************************************************************************)
(* ImageProcessorService.shouldResize and resizeImage                      *)
(*                                                                         *)
(* maxWidth and maxHeight are optional numbers that the code only tests    *)
(* for truthiness: 0 stands for both undefined and 0.                      *)
(***************************************************************************)
shouldResize(imageBitmap, options) ==
    IF options.maxWidth = 0 /\ options.maxHeight = 0
    THEN FALSE
    ELSE \/ (options.maxWidth # 0 /\ imageBitmap.width > options.maxWidth)
         \/ (options.maxHeight # 0 /\ imageBitmap.height > options.maxHeight)

\* aspectRatio = width / height is a double: it is the exact quotient only when
\* the reduced denominator is a power of two.
AspectRatioIsExact(width, height) == IsPowerOfTwo(height \div GCD(width, height))

\* Math.round of a double computed from the aspectRatio double, whose exact
\* value is p/q.  The double arithmetic is within a few ulps of p/q, so it
\* rounds like p/q unless p/q is a tie k + 1/2: a tie computed from an inexact
\* aspectRatio can land on either side of k + 1/2, and Math.round then gives k
\* or k + 1 (4x150 with maxWidth 3 gives height 112, the quotient being 112.5).
RoundOfDouble(p, q, exact) ==
    IF (2 * p) % (2 * q) = q /\ ~exact
    THEN {MathRound(p, q) - 1, MathRound(p, q)}
    ELSE {MathRound(p, q)}

\* Lines 172-190 of resizeImage: the values newWidth and newHeight can have.
NewDimensions_NoHeightPass(imageBitmap, options) ==
    LET w == imageBitmap.width
        h == imageBitmap.height
        exact == AspectRatioIsExact(w, h)
    IN  IF options.maintainAspectRatio
        THEN IF options.maxWidth # 0 /\ w > options.maxWidth
             THEN { [width |-> options.maxWidth, height |-> nh] :
                      nh \in RoundOfDouble(options.maxWidth * h, w, exact) }
             ELSE { [width |-> w, height |-> h] }
        ELSE { [width |-> IF options.maxWidth # 0 THEN options.maxWidth ELSE w,
                height |-> IF options.maxHeight # 0 THEN options.maxHeight ELSE h] }

NewDimensions_FloorNotRound(imageBitmap, options) ==
    LET w == imageBitmap.width
        h == imageBitmap.height
        afterWidth ==
            IF options.maxWidth # 0 /\ w > options.maxWidth
            THEN [width |-> options.maxWidth, height |-> (options.maxWidth * h) \div w]
            ELSE [width |-> w, height |-> h]
    IN  IF options.maintainAspectRatio
        THEN IF options.maxHeight # 0 /\ afterWidth.height > options.maxHeight
             THEN { [width |-> (options.maxHeight * w) \div h, height |-> options.maxHeight] }
             ELSE { afterWidth }
        ELSE { [width |-> IF options.maxWidth # 0 THEN options.maxWidth ELSE w,
                height |-> IF options.maxHeight # 0 THEN options.maxHeight ELSE h] }

NewDimensions_ClampOnly(imageBitmap, options) ==
    LET w == imageBitmap.width
        h == imageBitmap.height
    IN  IF options.maintainAspectRatio
        THEN NewDimensions_FloorNotRound(imageBitmap, options)
        ELSE { [width |-> IF options.maxWidth # 0 THEN Min(w, options.maxWidth) ELSE w,
                height |-> IF options.maxHeight # 0 THEN Min(h, options.maxHeight) ELSE h] }

NewDimensions(imageBitmap, options) ==
    LET w == imageBitmap.width
        h == imageBitmap.height
        exact == AspectRatioIsExact(w, h)
        afterWidth ==
            IF options.maxWidth # 0 /\ w > options.maxWidth
            THEN { [width |-> options.maxWidth, height |-> nh] :
                     nh \in RoundOfDouble(options.maxWidth * h, w, exact) }
            ELSE { [width |-> w, height |-> h] }
        afterHeight(d) ==
            IF options.maxHeight # 0 /\ d.height > options.maxHeight
            THEN { [width |-> nw, height |-> options.maxHeight] :
                     nw \in RoundOfDouble(options.maxHeight * w, h, exact) }
            ELSE { d }
    IN  IF options.maintainAspectRatio
        THEN UNION { afterHeight(d) : d \in afterWidth }
        ELSE { [width |-> IF options.maxWidth # 0 THEN options.maxWidth ELSE w,
                height |-> IF options.maxHeight # 0 THEN options.maxHeight ELSE h] }

\* canvas.toBlob calls back with null when the canvas has no pixels.
CanvasHasPixels(canvas) == canvas.width > 0 /\ canvas.height > 0

ErrCanvasContext == "Failed to get canvas context"
ErrToBlobRejected == "undefined"
ErrCreateImageBitmap == "createImageBitmap rejected"

\* resizeImage as one call: every way it can settle.  getContext may return
\* null, toBlob may call back with null, and createImageBitmap may reject.
resizeImage(imageBitmap, options) ==
    LET canvases == NewDimensions(imageBitmap, options)
    IN  { [status |-> "resolved", width |-> c.width, height |-> c.height, error |-> ""] :
            c \in { d \in canvases : CanvasHasPixels(d) } }
        \cup
        { [status |-> "rejected", width |-> c.width, height |-> c.height, error |-> e] :
            c \in canvases, e \in {ErrCanvasContext, ErrToBlobRejected, ErrCreateImageBitmap} }

(***************************************************************************)
(* Bitmaps and options offered to the resize                               *)
(***************************************************************************)
MaxDimension == 6

ExampleDimensions == {150, 250, 300, 500, 1000}

Dimensions == (1..MaxDimension) \cup ExampleDimensions

ResizeInputs ==
    [bitmap : [width : Dimensions, height : Dimensions],
     options : [maxWidth : {0} \cup Dimensions,
                maxHeight : {0} \cup Dimensions,
                maintainAspectRatio : BOOLEAN]]

RsIdle == rsIn = None /\ rsOut = None

RsInit == rsIn \in { Some(i) : i \in ResizeInputs } /\ rsOut = None

\* Lines 46-48 of process, the branch that resizes.
ResizeImageCall ==
    /\ rsOut = None
    /\ shouldResize(rsIn[1].bitmap, rsIn[1].options)
    /\ \E r \in resizeImage(rsIn[1].bitmap, rsIn[1].options) :
           rsOut' = Some([resized |-> TRUE] @@ r)
    /\ UNCHANGED rsIn
    /\ UNCHANGED OtherThanRs

\* Lines 46-48 of process, the branch that keeps imageBitmap.
KeepImageCall ==
    /\ rsOut = None
    /\ ~shouldResize(rsIn[1].bitmap, rsIn[1].options)
    /\ rsOut' = Some([resized |-> FALSE, status |-> "resolved",
                      width |-> rsIn[1].bitmap.width,
                      height |-> rsIn[1].bitmap.height, error |-> ""])
    /\ UNCHANGED rsIn
    /\ UNCHANGED OtherThanRs

RsNext == ResizeImageCall \/ KeepImageCall

(***************************************************************************)
(* ImageOptimizerService.calculateOptimalQuality                           *)
(*                                                                         *)
(* A bitmap is [width, height, pixels], pixels being the row-major         *)
(* sequence of its RGBA pixels [r, g, b, a]; a Uint8ClampedArray of 4n     *)
(* bytes is the sequence of its n pixels.                                  *)
(***************************************************************************)
Pixel(r, g, b, a) == [r |-> r, g |-> g, b |-> b, a |-> a]

Gray(level) == Pixel(level, level, level, 255)

\* ctx.getImageData(0, 0, sw, sh) on a canvas holding `bitmap`.
getImageData(bitmap, sw, sh) ==
    [k \in 1..(sw * sh) |->
        bitmap.pixels[((k - 1) \div sw) * bitmap.width + ((k - 1) % sw) + 1]]

SampleSize == 100

EdgeThreshold == 30

\* The variance of line 106 between pixel k and its successor in the buffer.
PairVariance(data, k) ==
    Abs(data[k].r - data[k + 1].r) + Abs(data[k].g - data[k + 1].g)
        + Abs(data[k].b - data[k + 1].b)

\* totalVariance after the loop has run for pixels 1..k (i < data.length - 4).
RECURSIVE TotalVariance(_, _)
TotalVariance(data, k) ==
    IF k <= 0 THEN 0 ELSE TotalVariance(data, k - 1) + PairVariance(data, k)

\* edgeCount after the loop has run for pixels 1..k.
RECURSIVE EdgeCount(_, _)
EdgeCount(data, k) ==
    IF k <= 0 THEN 0
    ELSE EdgeCount(data, k - 1) + (IF PairVariance(data, k) > EdgeThreshold THEN 1 ELSE 0)

calculateImageComplexity_Uncapped(data) ==
    [num |-> TotalVariance(data, Len(data) - 1) + 100 * EdgeCount(data, Len(data) - 1),
     den |-> 200 * Len(data)]

\* The score min(1, avgVariance / 100 * 0.5 + edgeRatio * 0.5) as the exact
\* fraction num/den, with avgVariance = totalVariance / n and edgeRatio =
\* edgeCount / n.  For n = 0 both are 0/0 and the score is NaN, written 0/0.
\* The double the code computes is this fraction to within an ulp, and orders
\* against 0.7 and 0.4 as the fraction does for every buffer of up to 5 pixels.
calculateImageComplexity(data) ==
    LET n == Len(data)
        totalVariance == TotalVariance(data, n - 1)
        edgeCount == EdgeCount(data, n - 1)
    IN  [num |-> Min(200 * n, totalVariance + 100 * edgeCount), den |-> 200 * n]

\* score > p/q for a double score; every comparison with NaN is false.
GreaterThan(score, p, q) == score.den # 0 /\ score.num * q > p * score.den

HighQuality == 92

MediumQuality == 85

LowQuality == 75

DefaultQuality == 85

QualityForComplexity_Inclusive(complexity) ==
    IF ~GreaterThan(complexity, 7, 10) /\ complexity.num * 10 # 7 * complexity.den
    THEN IF ~GreaterThan(complexity, 4, 10) /\ complexity.num * 10 # 4 * complexity.den
         THEN LowQuality
         ELSE MediumQuality
    ELSE HighQuality

\* Lines 78-84.
QualityForComplexity(complexity) ==
    IF GreaterThan(complexity, 7, 10)
    THEN HighQuality
    ELSE IF GreaterThan(complexity, 4, 10)
         THEN MediumQuality
         ELSE LowQuality

\* calculateOptimalQuality; ctx is FALSE when getContext('2d') returns null.
calculateOptimalQuality(imageData, ctx) ==
    IF ~ctx
    THEN [quality |-> DefaultQuality, complexity |-> None]
    ELSE LET sampleData == getImageData(imageData,
                                        Min(SampleSize, imageData.width),
                                        Min(SampleSize, imageData.height))
             complexity == calculateImageComplexity(sampleData)
         IN  [quality |-> QualityForComplexity(complexity),
              complexity |-> Some(complexity)]

(***************************************************************************)
(* Bitmaps offered to the quality analysis                                 *)
(***************************************************************************)
MaxSamplePixels == 3

AnalysisPixels ==
    { Gray(l) : l \in {0, 20, 21, 60, 61, 255} } \cup { Pixel(60, 0, 0, 255) }

Shapes(maxPixels) ==
    { wh \in (1..maxPixels) \X (1..maxPixels) : wh[1] * wh[2] <= maxPixels }

AnalysisBitmaps ==
    UNION { [width : {wh[1]}, height : {wh[2]},
             pixels : [1..(wh[1] * wh[2]) -> AnalysisPixels]] :
            wh \in Shapes(MaxSamplePixels) }

QIdle == qIn = None /\ qOut = None

QInit == qIn \in { Some(b) : b \in AnalysisBitmaps } /\ qOut = None

CalculateOptimalQualityCall ==
    /\ qOut = None
    /\ \E ctx \in BOOLEAN : qOut' = Some(calculateOptimalQuality(qIn[1], ctx))
    /\ UNCHANGED qIn
    /\ UNCHANGED OtherThanQ

QNext == CalculateOptimalQualityCall

(***************************************************************************)
(* Regions offered to calculateImageComplexity                             *)
(*                                                                         *)
(* A region is an ImageData [width, height, data]; the analyzer gets its   *)
(* data, the row-major buffer.  The empty buffer is the region of 0 pixels.*)
(***************************************************************************)
MaxRegionDim == 5

Black == Gray(0)

White == Gray(255)

\* A width x height region of one colour.
UniformRegion(width, height, colour) ==
    [width |-> width, height |-> height,
     data |-> [k \in 1..(width * height) |-> colour]]

\* A width x height checkerboard of black and white; phase picks the colour
\* of the top-left pixel.
CheckerboardRegion(width, height, phase) ==
    [width |-> width, height |-> height,
     data |-> [k \in 1..(width * height) |->
                 IF (((k - 1) % width) + ((k - 1) \div width) + phase) % 2 = 0
                 THEN Black ELSE White]]

\* Every one-row region of up to MaxSamplePixels pixels, the empty one included.
SmallRegions ==
    UNION { [width : {n}, height : {IF n = 0 THEN 0 ELSE 1},
             data : [1..n -> AnalysisPixels]] : n \in 0..MaxSamplePixels }

Regions ==
    SmallRegions
    \cup { UniformRegion(w, h, c) :
             w \in 1..MaxRegionDim, h \in 1..MaxRegionDim, c \in AnalysisPixels }
    \cup { CheckerboardRegion(w, h, phase) :
             w \in 1..MaxRegionDim, h \in 1..MaxRegionDim, phase \in {0, 1} }

CxIdle == cxIn = None /\ cxOut = None

CxInit == cxIn \in { Some(region) : region \in Regions } /\ cxOut = None

\* this.calculateImageComplexity(sampleData.data)
CalculateImageComplexityCall ==
    /\ cxOut = None
    /\ cxOut' = Some(calculateImageComplexity(cxIn[1].data))
    /\ UNCHANGED cxIn
    /\ UNCHANGED OtherThanCx

CxNext == CalculateImageComplexityCall

(***************************************************************************)
(* The conversion strategies and ConversionStrategyFactory                 *)
(***************************************************************************)
JpegConversionStrategy == [class |-> "JpegConversionStrategy", targetFormat |-> JPEG]
PngConversionStrategy == [class |-> "PngConversionStrategy", targetFormat |-> PNG]
WebpConversionStrategy == [class |-> "WebpConversionStrategy", targetFormat |-> WEBP]
AvifConversionStrategy == [class |-> "AvifConversionStrategy", targetFormat |-> AVIF]
GifConversionStrategy == [class |-> "GifConversionStrategy", targetFormat |-> GIF]
BmpConversionStrategy == [class |-> "BmpConversionStrategy", targetFormat |-> BMP]

ConversionStrategies ==
    {JpegConversionStrategy, PngConversionStrategy, WebpConversionStrategy,
     AvifConversionStrategy, GifConversionStrategy, BmpConversionStrategy}

\* BaseConversionStrategy.supports
supports(strategy, format) == strategy.targetFormat = format

\* The static initializer of ConversionStrategyFactory.strategies.
InitialStrategies ==
    [f \in ImageFormat |->
        CASE f = JPEG -> JpegConversionStrategy
          [] f = PNG -> PngConversionStrategy
          [] f = WEBP -> WebpConversionStrategy
          [] f = AVIF -> AvifConversionStrategy
          [] f = GIF -> GifConversionStrategy
          [] f = BMP -> BmpConversionStrategy]

\* A value of type ImageFormat that is no member of the enum (a cast string).
TIFF == "image/tiff"

ErrUnsupportedFormat == "Unsupported image format"

\* ConversionStrategyFactory.getStrategy: the strategy, or the error thrown.
getStrategy(registry, format) ==
    IF format \notin DOMAIN registry
    THEN [status |-> "thrown", error |-> ErrUnsupportedFormat, format |-> format]
    ELSE [status |-> "returned", strategy |-> registry[format], format |-> format]

\* Map.prototype.set
MapSet(map, key, value) ==
    [k \in (DOMAIN map) \cup {key} |-> IF k = key THEN value ELSE map[k]]

MaxRegisterCalls == 2

FIdle == strategies = InitialStrategies /\ registerCalls = 0 /\ lookup = None

FInit == FIdle

\* ConversionStrategyFactory.registerStrategy
RegisterStrategy ==
    /\ registerCalls < MaxRegisterCalls
    /\ \E format \in ImageFormat, strategy \in ConversionStrategies :
           strategies' = MapSet(strategies, format, strategy)
    /\ registerCalls' = registerCalls + 1
    /\ UNCHANGED lookup
    /\ UNCHANGED OtherThanF

\* ConversionStrategyFactory.getStrategy called with any format value.
GetStrategy ==
    /\ \E format \in ImageFormat \cup {TIFF} :
           lookup' = Some(getStrategy(strategies, format))
    /\ UNCHANGED <<strategies, registerCalls>>
    /\ UNCHANGED OtherThanF

FNext == RegisterStrategy \/ GetStrategy

(***************************************************************************)
(* The strategies' convert and applyOptimization                           *)
(*                                                                         *)
(* drawImage copies the bitmap's pixels to the canvas; getImageData and    *)
(* putImageData read and write them back unchanged.                        *)
(***************************************************************************)
\* A store into a Uint8ClampedArray of the number twice/2: clamped to 0..255
\* and rounded to the nearest integer, a tie going to the even neighbour.
Uint8Clamped(twice) ==
    IF twice <= 0 THEN 0
    ELSE IF twice >= 510 THEN 255
    ELSE IF twice % 2 = 0 THEN twice \div 2
    ELSE IF ((twice - 1) \div 2) % 2 = 0 THEN (twice - 1) \div 2
    ELSE (twice + 1) \div 2

\* The loops write the three colour bytes of each pixel and leave alpha alone.

\* Math.round(c / 2) * 2
BaseQuantize(c) == Uint8Clamped(2 * (MathRound(c, 2) * 2))

\* BaseConversionStrategy.applyOptimization
BaseApplyOptimization(pixels) ==
    [k \in 1..Len(pixels) |->
        [r |-> BaseQuantize(pixels[k].r), g |-> BaseQuantize(pixels[k].g),
         b |-> BaseQuantize(pixels[k].b), a |-> pixels[k].a]]

\* Math.round(c / 4) * 2
PngQuantize_MismatchedStep(c) == Uint8Clamped(2 * (MathRound(c, 4) * 2))

\* Math.round(c / 4) * 4
PngQuantize(c) == Uint8Clamped(2 * (MathRound(c, 4) * 4))

\* PngConversionStrategy.applyPngOptimization
applyPngOptimization(pixels) ==
    [k \in 1..Len(pixels) |->
        [r |-> PngQuantize(pixels[k].r), g |-> PngQuantize(pixels[k].g),
         b |-> PngQuantize(pixels[k].b), a |-> pixels[k].a]]

\* Math.round(c / 4) * 4 in place of the 1.5 step
WebpQuantize_CoarseStep(c) == Uint8Clamped(2 * (MathRound(c, 4) * 4))

\* Math.round(c / 1.5) * 1.5, the product m * 1.5 being 3m/2.
WebpQuantize(c) == Uint8Clamped(MathRound(2 * c, 3) * 3)

\* WebpConversionStrategy.applyOptimization
WebpApplyOptimization(pixels) ==
    [k \in 1..Len(pixels) |->
        [r |-> WebpQuantize(pixels[k].r), g |-> WebpQuantize(pixels[k].g),
         b |-> WebpQuantize(pixels[k].b), a |-> pixels[k].a]]

\* Math.round(c)
AvifRound(c) == Uint8Clamped(2 * MathRound(c, 1))

\* AvifConversionStrategy.applyOptimization
AvifApplyOptimization(pixels) ==
    [k \in 1..Len(pixels) |->
        [r |-> AvifRound(pixels[k].r), g |-> AvifRound(pixels[k].g),
         b |-> AvifRound(pixels[k].b), a |-> pixels[k].a]]

Background == 255

JpegBlend_BlackBackground(c, a) == Uint8Clamped(2 * MathRound(c * a, 255))

\* Math.round(c * alpha + 255 * (1 - alpha)) with alpha = a / 255.  The exact
\* value is a multiple of 1/255, never within 1/510 of a tie, and the double
\* arithmetic rounds like it.
JpegBlend(c, a) ==
    Uint8Clamped(2 * MathRound(c * a + Background * (255 - a), 255))

\* Lines 31-44 of JpegConversionStrategy.applyOptimization: the canvas after
\* the first putImageData.
JpegFlatten(pixels) ==
    [k \in 1..Len(pixels) |->
        IF pixels[k].a < 255
        THEN [r |-> JpegBlend(pixels[k].r, pixels[k].a),
              g |-> JpegBlend(pixels[k].g, pixels[k].a),
              b |-> JpegBlend(pixels[k].b, pixels[k].a),
              a |-> 255]
        ELSE pixels[k]]

\* JpegConversionStrategy.applyOptimization: flatten, then super.applyOptimization.
JpegApplyOptimization(pixels) == BaseApplyOptimization(JpegFlatten(pixels))

\* this.applyOptimization, dispatched on the class of the strategy.
applyOptimization(strategy, pixels) ==
    CASE strategy.class = "JpegConversionStrategy" -> JpegApplyOptimization(pixels)
      [] strategy.class = "WebpConversionStrategy" -> WebpApplyOptimization(pixels)
      [] strategy.class = "AvifConversionStrategy" -> AvifApplyOptimization(pixels)
      [] OTHER -> BaseApplyOptimization(pixels)

ErrCanvasToBlob == "Failed to convert canvas to blob"
ErrAvifUnsupported == "AVIF format is not supported in your browser. Please try WebP or JPEG."

FullQuality == 100

\* The settlements of a convert that got a context: toBlob calls back with a
\* blob encoded from `canvas` as `type` at `quality`, or with null.
CanvasToBlob(strategy, canvas, quality, flattened, rejection) ==
    { [status |-> "resolved", error |-> "", canvas |-> canvas,
       type |-> strategy.targetFormat, quality |-> quality, flattened |-> flattened],
      [status |-> "rejected", error |-> rejection, canvas |-> canvas,
       type |-> strategy.targetFormat, quality |-> quality, flattened |-> flattened] }

\* The settlement of a convert whose getContext('2d') returned null.
NoContext(strategy, quality) ==
    { [status |-> "rejected", error |-> ErrCanvasContext, canvas |-> <<>>,
       type |-> strategy.targetFormat, quality |-> quality, flattened |-> None] }

BaseConvert_AlwaysOptimizes(strategy, imageData, quality, optimize) ==
    NoContext(strategy, quality)
    \cup CanvasToBlob(strategy, applyOptimization(strategy, imageData.pixels),
                      quality,
                      IF strategy.class = "JpegConversionStrategy"
                          THEN Some(JpegFlatten(imageData.pixels)) ELSE None,
                      ErrCanvasToBlob)

\* BaseConversionStrategy.convert, inherited by the JPEG and WebP strategies.
BaseConvert(strategy, imageData, quality, optimize) ==
    NoContext(strategy, quality)
    \cup CanvasToBlob(strategy,
                      IF optimize THEN applyOptimization(strategy, imageData.pixels)
                                  ELSE imageData.pixels,
                      quality,
                      IF optimize /\ strategy.class = "JpegConversionStrategy"
                          THEN Some(JpegFlatten(imageData.pixels)) ELSE None,
                      ErrCanvasToBlob)

\* PngConversionStrategy.convert
PngConvert(strategy, imageData, quality, optimize) ==
    NoContext(strategy, quality)
    \cup CanvasToBlob(strategy,
                      IF optimize THEN applyPngOptimization(imageData.pixels)
                                  ELSE imageData.pixels,
                      FullQuality, None, ErrCanvasToBlob)

\* AvifConversionStrategy.convert: a rejected canvasToBlob is caught and rethrown.
AvifConvert(strategy, imageData, quality, optimize) ==
    NoContext(strategy, quality)
    \cup CanvasToBlob(strategy,
                      IF optimize THEN applyOptimization(strategy, imageData.pixels)
                                  ELSE imageData.pixels,
                      quality, None, ErrAvifUnsupported)

PlainConvert_Optimizing(strategy, imageData, quality, optimize) ==
    NoContext(strategy, quality)
    \cup CanvasToBlob(strategy,
                      IF optimize THEN BaseApplyOptimization(imageData.pixels)
                                  ELSE imageData.pixels,
                      FullQuality, None, ErrCanvasToBlob)

\* GifConversionStrategy.convert and BmpConversionStrategy.convert
PlainConvert(strategy, imageData, quality, optimize) ==
    NoContext(strategy, quality)
    \cup CanvasToBlob(strategy, imageData.pixels, FullQuality, None, ErrCanvasToBlob)

\* strategy.convert(imageData, quality, optimize), dispatched on the class.
convert(strategy, imageData, quality, optimize) ==
    CASE strategy.class = "PngConversionStrategy" ->
             PngConvert(strategy, imageData, quality, optimize)
      [] strategy.class = "AvifConversionStrategy" ->
             AvifConvert(strategy, imageData, quality, optimize)
      [] strategy.class \in {"GifConversionStrategy", "BmpConversionStrategy"} ->
             PlainConvert(strategy, imageData, quality, optimize)
      [] OTHER -> BaseConvert(strategy, imageData, quality, optimize)

(***************************************************************************)
(* Bitmaps and arguments offered to convert                                *)
(***************************************************************************)
MaxConvertPixels == 2

AlphaLevels == {0, 1, 64, 127, 128, 254, 255}

\* A one-row bitmap of n pixels: pixel k has the colour bytes x, x + 85 and
\* x + 170 shifted by 37 (k - 1), and alpha a shifted by 128 (k - 1), mod 256.
TestBitmap(x, a, n) ==
    [width |-> n, height |-> 1,
     pixels |-> [k \in 1..n |->
                    Pixel((x + 37 * (k - 1)) % 256,
                          (x + 85 + 37 * (k - 1)) % 256,
                          (x + 170 + 37 * (k - 1)) % 256,
                          (a + 128 * (k - 1)) % 256)]]

ConvertBitmaps ==
    { TestBitmap(x, a, n) : x \in 0..255, a \in AlphaLevels, n \in 1..MaxConvertPixels }

ConvertQualities == {50, 92}

ConvertInputs ==
    [strategy : ConversionStrategies, imageData : ConvertBitmaps,
     quality : ConvertQualities, optimize : BOOLEAN]

CvIdle == cvIn = None /\ cvOut = None

CvInit == cvIn \in { Some(i) : i \in ConvertInputs } /\ cvOut = None

\* The call settles with one of the settlements of the dispatched convert.
ConvertSettles ==
    /\ \E settled \in convert(cvIn[1].strategy, cvIn[1].imageData,
                              cvIn[1].quality, cvIn[1].optimize) :
           cvOut' = Some(settled)
    /\ UNCHANGED cvIn
    /\ UNCHANGED OtherThanCv

JpegConvertCall ==
    /\ cvOut = None
    /\ cvIn[1].strategy.class = "JpegConversionStrategy"
    /\ ConvertSettles

PngConvertCall ==
    /\ cvOut = None
    /\ cvIn[1].strategy.class = "PngConversionStrategy"
    /\ ConvertSettles

WebpConvertCall ==
    /\ cvOut = None
    /\ cvIn[1].strategy.class = "WebpConversionStrategy"
    /\ ConvertSettles

AvifConvertCall ==
    /\ cvOut = None
    /\ cvIn[1].strategy.class = "AvifConversionStrategy"
    /\ ConvertSettles

GifConvertCall ==
    /\ cvOut = None
    /\ cvIn[1].strategy.class = "GifConversionStrategy"
    /\ ConvertSettles

BmpConvertCall ==
    /\ cvOut = None
    /\ cvIn[1].strategy.class = "BmpConversionStrategy"
    /\ ConvertSettles

CvNext ==
    \/ JpegConvertCall
    \/ PngConvertCall
    \/ WebpConvertCall
    \/ AvifConvertCall
    \/ GifConvertCall
    \/ BmpConvertCall

(***************************************************************************)
(* ImageProcessorService.process                                           *)
(*                                                                         *)
(* An ImageBitmap is a heap record [width, height, kind, closed]: width    *)
(* and height are its intrinsic dimensions, kind names its pixels, and     *)
(* closed is set by close().  The width and height attributes of a closed  *)
(* ImageBitmap read 0.  The code between two awaits runs in one step.      *)
(***************************************************************************)
\* imageBitmap.width and imageBitmap.height as the program reads them.
BitmapWidth(bitmap) == IF bitmap.closed THEN 0 ELSE bitmap.width

BitmapHeight(bitmap) == IF bitmap.closed THEN 0 ELSE bitmap.height

\* imageBitmap.close()
close(h, handle) == [h EXCEPT ![handle].closed = TRUE]

BitmapKinds == {"uniform", "alternating"}

\* The pixels of a bitmap: all opaque black, or opaque black alternating with
\* a half-transparent gray.
PatternPixels(kind, width, height) ==
    [k \in 1..(width * height) |->
        IF kind = "uniform" \/ k % 2 = 1 THEN Gray(0) ELSE Pixel(60, 60, 60, 128)]

\* What drawImage(bitmap) puts on a canvas of the bitmap's size.
ImageDataOf(bitmap) ==
    [width |-> BitmapWidth(bitmap), height |-> BitmapHeight(bitmap),
     pixels |-> PatternPixels(bitmap.kind, bitmap.width, bitmap.height)]

\* Smoothing keeps a uniform image uniform.
ResampledKinds(kind) == IF kind = "uniform" THEN {"uniform"} ELSE BitmapKinds

ErrInvalidImage == "Invalid image file"
ErrLoadImage == "Failed to load image"

\* Lines 55-59: the quality handed to the strategy.
DetermineQuality(opts, hasOptimizer, bitmap) ==
    IF opts.optimize /\ hasOptimizer
    THEN { calculateOptimalQuality(ImageDataOf(bitmap), ctx).quality : ctx \in BOOLEAN }
    ELSE { opts.quality }

\* Lines 62-63: the dimensions saved before converting.
DimensionsBeforeConvert_OfSource(h, source, resized) ==
    [width |-> BitmapWidth(h[source]), height |-> BitmapHeight(h[source])]

DimensionsBeforeConvert(h, source, resized) ==
    [width |-> BitmapWidth(h[resized]), height |-> BitmapHeight(h[resized])]

\* Lines 74-78: the clean-up after a successful convert.
CleanUp(h, source, resized) ==
    IF resized # source THEN close(close(h, source), resized) ELSE close(h, source)

CompressionRatio_Truncated(processedSize, originalSize) ==
    LET num == (originalSize - processedSize) * 10000
    IN  IF num >= 0 THEN num \div originalSize ELSE -((-num) \div originalSize)

\* Lines 83-85 and 92: parseFloat(((1 - processedSize / originalSize) *
\* 100).toFixed(2)) in hundredths of a percent.  toFixed rounds the magnitude
\* to the nearest hundredth, a tie going up; "-0.00" parses to -0, which is 0.
CompressionRatio(processedSize, originalSize) ==
    LET num == (originalSize - processedSize) * 10000
    IN  IF num >= 0 THEN MathRound(num, originalSize)
                    ELSE -MathRound(-num, originalSize)

\* Lines 87-96 (processingTime is left out).
ProcessingResult(f, opts, blob, width, height) ==
    [blob |-> blob,
     format |-> opts.targetFormat,
     originalSize |-> f.size,
     processedSize |-> blob.size,
     compressionRatio |-> CompressionRatio(blob.size, f.size),
     width |-> width,
     height |-> height]

(***************************************************************************)
(* Files, options and decoded bitmaps offered to process                   *)
(***************************************************************************)
MaxPipeDim == 2

ProcessFiles ==
    [name : { JoinWithDots(<<<<"a">>, ext>>) :
                ext \in {ExtPng, <<"t", "x", "t">>, KeyConstructor} },
     type : {TypeImagePng, TypeTextPlain},
     size : {0, 300, 100000}]

BlobSizes == {100, 400, 100001}

ProcessOptions ==
    [targetFormat : ImageFormat \cup {TIFF},
     quality : ConvertQualities,
     optimize : BOOLEAN,
     maxWidth : 0..MaxPipeDim,
     maxHeight : 0..MaxPipeDim,
     maintainAspectRatio : BOOLEAN]

PIdle ==
    /\ pc = "idle" /\ pFile = None /\ pOptions = None /\ optimizer = FALSE
    /\ heap = <<>> /\ pImageBitmap = 0 /\ pResizedBitmap = 0 /\ pCanvas = None
    /\ pStrategy = None /\ pQuality = None
    /\ resultWidth = None /\ resultHeight = None
    /\ converted = None /\ resultBlob = None /\ result = None /\ error = None

\* new ImageProcessorService(optimizer?) and a call process(file, options).
PInit ==
    /\ pc = "start"
    /\ pFile \in { Some(f) : f \in ProcessFiles }
    /\ pOptions \in { Some(o) : o \in ProcessOptions }
    /\ optimizer \in BOOLEAN
    /\ heap = <<>> /\ pImageBitmap = 0 /\ pResizedBitmap = 0 /\ pCanvas = None
    /\ pStrategy = None /\ pQuality = None
    /\ resultWidth = None /\ resultHeight = None
    /\ converted = None /\ resultBlob = None /\ result = None /\ error = None

\* The promise of process rejects with `e`.
Throw(e) == pc' = "thrown" /\ error' = Some(e)

\* Lines 50-70, run with the resized bitmap `resized` of the heap h: the
\* strategy lookup, the quality, the saved dimensions, the call of convert.
ConvertStart(h, source, resized) ==
    LET found == getStrategy(strategies, pOptions[1].targetFormat)
    IN  IF found.status = "thrown"
        THEN /\ Throw(found.error)
             /\ UNCHANGED <<pStrategy, pQuality, resultWidth, resultHeight>>
        ELSE /\ pStrategy' = Some(found.strategy)
             /\ \E q \in DetermineQuality(pOptions[1], optimizer, h[resized]) :
                    pQuality' = Some(q)
             /\ resultWidth' = Some(DimensionsBeforeConvert(h, source, resized).width)
             /\ resultHeight' = Some(DimensionsBeforeConvert(h, source, resized).height)
             /\ pc' = "convert"
             /\ UNCHANGED error

Process_SkipsValidation ==
    /\ pc = "start"
    /\ pc' = "loadImage"
    /\ UNCHANGED <<pFile, pOptions, optimizer, heap, pImageBitmap, pResizedBitmap,
                   pCanvas, pStrategy, pQuality, resultWidth, resultHeight,
                   converted, resultBlob, result, error>>
    /\ UNCHANGED OtherThanP

\* Lines 35-43: the validation and the call of loadImage.
Process ==
    /\ pc = "start"
    /\ IF ~isValidImage(pFile[1])
       THEN Throw(ErrInvalidImage)
       ELSE pc' = "loadImage" /\ UNCHANGED error
    /\ UNCHANGED <<pFile, pOptions, optimizer, heap, pImageBitmap, pResizedBitmap,
                   pCanvas, pStrategy, pQuality, resultWidth, resultHeight,
                   converted, resultBlob, result>>
    /\ UNCHANGED OtherThanP

\* createImageBitmap(file) rejects.
LoadImageReject ==
    /\ pc = "loadImage"
    /\ Throw(ErrLoadImage)
    /\ UNCHANGED <<pFile, pOptions, optimizer, heap, pImageBitmap, pResizedBitmap,
                   pCanvas, pStrategy, pQuality, resultWidth, resultHeight,
                   converted, resultBlob, result>>
    /\ UNCHANGED OtherThanP

\* createImageBitmap(file) resolves (an empty file never decodes); lines
\* 46-48 follow, and without a resize lines 50-70.
LoadImageResolve ==
    /\ pc = "loadImage"
    /\ pFile[1].size > 0
    /\ \E w \in 1..MaxPipeDim, h \in 1..MaxPipeDim, kind \in BitmapKinds :
        LET bitmap == [width |-> w, height |-> h, kind |-> kind, closed |-> FALSE]
        IN  /\ heap' = Append(heap, bitmap)
            /\ pImageBitmap' = Len(heap) + 1
            /\ IF shouldResize(bitmap, pOptions[1])
               THEN /\ \E d \in NewDimensions(bitmap, pOptions[1]), ctx \in BOOLEAN :
                        /\ pCanvas' = Some(d)
                        /\ IF ctx THEN pc' = "resizeToBlob" /\ UNCHANGED error
                                  ELSE Throw(ErrCanvasContext)
                    /\ UNCHANGED <<pResizedBitmap, pStrategy, pQuality,
                                   resultWidth, resultHeight>>
               ELSE /\ pResizedBitmap' = Len(heap) + 1
                    /\ ConvertStart(heap', Len(heap) + 1, Len(heap) + 1)
                    /\ UNCHANGED pCanvas
    /\ UNCHANGED <<pFile, pOptions, optimizer, converted, resultBlob, result>>
    /\ UNCHANGED OtherThanP

\* Line 209: toBlob calls back with a blob.
ResizeToBlobResolve ==
    /\ pc = "resizeToBlob"
    /\ CanvasHasPixels(pCanvas[1])
    /\ pc' = "resizeCreateBitmap"
    /\ UNCHANGED <<pFile, pOptions, optimizer, heap, pImageBitmap, pResizedBitmap,
                   pCanvas, pStrategy, pQuality, resultWidth, resultHeight,
                   converted, resultBlob, result, error>>
    /\ UNCHANGED OtherThanP

\* Line 209: toBlob calls back with null and the promise rejects with undefined.
ResizeToBlobReject ==
    /\ pc = "resizeToBlob"
    /\ Throw(ErrToBlobRejected)
    /\ UNCHANGED <<pFile, pOptions, optimizer, heap, pImageBitmap, pResizedBitmap,
                   pCanvas, pStrategy, pQuality, resultWidth, resultHeight,
                   converted, resultBlob, result>>
    /\ UNCHANGED OtherThanP

\* Line 212: createImageBitmap(blob) resolves; lines 50-70 follow.
ResizeCreateBitmapResolve ==
    /\ pc = "resizeCreateBitmap"
    /\ \E kind \in ResampledKinds(heap[pImageBitmap].kind) :
        LET bitmap == [width |-> pCanvas[1].width, height |-> pCanvas[1].height,
                       kind |-> kind, closed |-> FALSE]
        IN  /\ heap' = Append(heap, bitmap)
            /\ pResizedBitmap' = Len(heap) + 1
            /\ ConvertStart(heap', pImageBitmap, Len(heap) + 1)
    /\ UNCHANGED <<pFile, pOptions, optimizer, pImageBitmap, pCanvas,
                   converted, resultBlob, result>>
    /\ UNCHANGED OtherThanP

\* Line 212: createImageBitmap(blob) rejects.
ResizeCreateBitmapReject ==
    /\ pc = "resizeCreateBitmap"
    /\ Throw(ErrCreateImageBitmap)
    /\ UNCHANGED <<pFile, pOptions, optimizer, heap, pImageBitmap, pResizedBitmap,
                   pCanvas, pStrategy, pQuality, resultWidth, resultHeight,
                   converted, resultBlob, result>>
    /\ UNCHANGED OtherThanP

\* The settlements of the pending strategy.convert(resizedBitmap, quality,
\* options.optimize).
PendingConvert ==
    convert(pStrategy[1], ImageDataOf(heap[pResizedBitmap]), pQuality[1],
            pOptions[1].optimize)

\* Line 66 resolves with a blob; lines 72-96 follow.
ConvertResolve ==
    /\ pc = "convert"
    /\ \E settled \in { c \in PendingConvert : c.status = "resolved" },
          size \in BlobSizes :
        LET blob == [size |-> size, type |-> settled.type]
        IN  /\ converted' = Some(settled)
            /\ resultBlob' = Some(blob)
            /\ heap' = CleanUp(heap, pImageBitmap, pResizedBitmap)
            /\ result' = Some(ProcessingResult(pFile[1], pOptions[1], blob,
                                               resultWidth[1], resultHeight[1]))
    /\ pc' = "returned"
    /\ UNCHANGED <<pFile, pOptions, optimizer, pImageBitmap, pResizedBitmap, pCanvas,
                   pStrategy, pQuality, resultWidth, resultHeight, error>>
    /\ UNCHANGED OtherThanP

ConvertReject_FallsBack ==
    /\ pc = "convert"
    /\ \E settled \in { c \in PendingConvert : c.status = "rejected" } :
        IF pStrategy[1] # JpegConversionStrategy
        THEN /\ pStrategy' = Some(JpegConversionStrategy)
             /\ UNCHANGED <<pc, converted, error>>
        ELSE /\ converted' = Some(settled)
             /\ Throw(settled.error)
             /\ UNCHANGED pStrategy
    /\ UNCHANGED <<pFile, pOptions, optimizer, heap, pImageBitmap, pResizedBitmap,
                   pCanvas, pQuality, resultWidth, resultHeight,
                   resultBlob, result>>
    /\ UNCHANGED OtherThanP

\* Line 66 rejects: the error leaves process, nothing after line 66 runs.
ConvertReject ==
    /\ pc = "convert"
    /\ \E settled \in { c \in PendingConvert : c.status = "rejected" } :
        /\ converted' = Some(settled)
        /\ Throw(settled.error)
    /\ UNCHANGED <<pFile, pOptions, optimizer, heap, pImageBitmap, pResizedBitmap,
                   pCanvas, pStrategy, pQuality, resultWidth, resultHeight,
                   resultBlob, result>>
    /\ UNCHANGED OtherThanP

PNext ==
    \/ Process
    \/ LoadImageReject
    \/ LoadImageResolve
    \/ ResizeToBlobResolve
    \/ ResizeToBlobReject
    \/ ResizeCreateBitmapResolve
    \/ ResizeCreateBitmapReject
    \/ ConvertResolve
    \/ ConvertReject

(***************************************************************************)
(* ImageOptimizerService.applyPsychovisualOptimization                     *)
(*                                                                         *)
(* optimize draws the bitmap on a canvas and calls the transform on it     *)
(* (lines 29-32).  The coefficients have at most six decimals: y is kept   *)
(* in thousandths, cb and cr in millionths, and the values converted back  *)
(* in thousandths (r, b) and millionths (g).                               *)
(***************************************************************************)
\* Math.round of a double whose exact value is p/q (q > 0, p of either sign).
\* The double is within a few ulps of p/q and rounds like it, except when p/q
\* is a tie k + 1/2: the double can then lie on either side of the tie.
RoundOfInexact(p, q) ==
    IF (2 * p) % (2 * q) = q
    THEN {MathRound(p, q) - 1, MathRound(p, q)}
    ELSE {MathRound(p, q)}

\* Math.max(0, Math.min(255, v))
ClampByte(v) == Max(0, Min(255, v))

\* 0.299 * r + 0.587 * g + 0.114 * b, in thousandths
Luminance(p) == 299 * p.r + 587 * p.g + 114 * p.b

\* -0.168736 * r - 0.331264 * g + 0.5 * b + 128, in millionths
ChromaBlue(p) == 128000000 + 500000 * p.b - 168736 * p.r - 331264 * p.g

\* 0.5 * r - 0.418688 * g - 0.081312 * b + 128, in millionths
ChromaRed(p) == 128000000 + 500000 * p.r - 418688 * p.g - 81312 * p.b

\* Math.round(c / 4) * 4, c in millionths
ChromaQuantize(c) == { 4 * m : m \in RoundOfInexact(c, 4000000) }

\* Lines 159-167: back to RGB from y (thousandths) and the rounded cb and cr,
\* each channel rounded and clamped; alpha is not written.
ChromaToRgb(y, cb, cr, a) ==
    { Pixel(ClampByte(r), ClampByte(g), ClampByte(b), a) :
        r \in RoundOfInexact(y + 1402 * (cr - 128), 1000),
        g \in RoundOfInexact(1000 * y - 344136 * (cb - 128) - 714136 * (cr - 128),
                             1000000),
        b \in RoundOfInexact(y + 1772 * (cb - 128), 1000) }

\* With Cb and Cr left unrounded the conversion back returns the pixel.
applyPsychovisualPixel_ChromaKept(p) == {p}

\* The body of the loop of lines 144-168: the values the pixel can be given.
applyPsychovisualPixel(p) ==
    UNION { ChromaToRgb(Luminance(p), cb, cr, p.a) :
                cb \in ChromaQuantize(ChromaBlue(p)),
                cr \in ChromaQuantize(ChromaRed(p)) }

\* applyPsychovisualOptimization: the contents the canvas can have afterwards.
applyPsychovisualOptimization(pixels) ==
    { buffer \in [1..Len(pixels) ->
                     UNION { applyPsychovisualPixel(pixels[k]) : k \in 1..Len(pixels) }] :
        \A k \in 1..Len(pixels) : buffer[k] \in applyPsychovisualPixel(pixels[k]) }

\* How many times the transform is applied to one canvas.
MaxApplications == 2

ChromaBuffers ==
    { TestBitmap(x, 255, n).pixels : x \in 0..255, n \in 1..MaxConvertPixels }

ChIdle == chCanvas = <<>> /\ chBefore = <<>>

\* The canvas after drawImage (line 29).
ChInit == chCanvas \in ChromaBuffers /\ chBefore = <<>>

\* this.applyPsychovisualOptimization(ctx, canvas)
ApplyPsychovisualOptimizationCall ==
    /\ chCanvas # <<>>
    /\ Len(chBefore) < MaxApplications
    /\ chCanvas' \in applyPsychovisualOptimization(chCanvas)
    /\ chBefore' = Append(chBefore, chCanvas)
    /\ UNCHANGED OtherThanCh

ChNext == ApplyPsychovisualOptimizationCall

(***************************************************************************)
(* ImageConverter: the component state and its handlers                    *)
(*                                                                         *)
(* A handler runs to its first await in one step; what follows the await   *)
(* runs in a later step, when the awaited promise settles.  A step ends    *)
(* with a render, so the controls offered are those of the current state:  *)
(* FileUpload is rendered while selectedFile is null (line 129), the       *)
(* ChangeImageButton and the other reset controls while it is not (lines   *)
(* 203-290), and ProcessingOptionsPanel while selectedFile and metadata    *)
(* are both set (lines 203, 284).  showFeatures is left out.               *)
(***************************************************************************)
ErrSelectValidImage == "Please select a valid image file"
ErrSelectImageFirst == "Please select an image first"
ErrFailedToRead == "Failed to read image: "
ErrProcessingFailed == "Processing failed: "

\* A message is the sequence of its pieces: a literal has one piece, the
\* template literal `${prefix}${err}` two.
Literal(text) == <<text>>

ErrorText(prefix, err) == <<prefix, err>>

\* IMAGE_EXTENSIONS[extension] || file.type (line 113)
MetadataFormat(file) ==
    IF FileExtension(file) \in DOMAIN IMAGE_EXTENSIONS
    THEN IMAGE_EXTENSIONS[FileExtension(file)]
    ELSE IF FileExtension(file) \in ObjectPrototypeKeys
         THEN <<"Object.prototype", FileExtension(file)>>
         ELSE file.type

\* ImageProcessorService.extractMetadata, once loadImage has resolved.
extractMetadata(file, bitmap) ==
    [name |-> file.name, size |-> file.size, type |-> file.type,
     width |-> bitmap.width, height |-> bitmap.height,
     format |-> MetadataFormat(file)]

TypeImageJpeg == ImagePrefix \o ExtJpeg

\* The files the user can pick: two images and a text file.
UiFiles ==
    { [name |-> JoinWithDots(<<<<"a">>, ExtPng>>), type |-> TypeImagePng, size |-> 300],
      [name |-> JoinWithDots(<<<<"b">>, ExtJpg>>), type |-> TypeImageJpeg, size |-> 100000],
      [name |-> JoinWithDots(<<<<"c">>, <<"t", "x", "t">>>>), type |-> TypeTextPlain,
       size |-> 300] }

\* What createImageBitmap decodes a picked image to.
UiBitmap == [width |-> 2, height |-> 1]

\* The options ProcessingOptionsPanel.handleProcess builds (resize disabled).
UiOptions ==
    { [targetFormat |-> format, quality |-> 92, optimize |-> FALSE,
       maxWidth |-> 0, maxHeight |-> 0, maintainAspectRatio |-> TRUE] :
        format \in {JPEG, AVIF} }

\* The blob a conversion resolves with.
UiBlob(options) == [size |-> 100, type |-> options.targetFormat]

\* The errors process rejects with for a valid file.
UiProcessErrors == {ErrLoadImage, ErrAvifUnsupported}

\* How many calls of extractMetadata, and of process, can be pending at once.
MaxPending == 2

RemoveAt(s, i) == SubSeq(s, 1, i - 1) \o SubSeq(s, i + 1, Len(s))

UiIdle ==
    /\ selectedFile = None /\ metadata = None /\ processingResult = None
    /\ isProcessing = FALSE /\ uiError = None
    /\ pendingMetadata = <<>> /\ pendingProcess = <<>> /\ convertedFile = None

\* The useState initial values.
UiInit == UiIdle

\* {!selectedFile ? <FileUpload ... /> : ...}
FileUploadRendered == selectedFile = None

\* The reset controls are in the branch rendered when a file is selected.
ResetRendered == selectedFile # None

\* {metadata && <ProcessingOptionsPanel ... />} in the selected-file branch
OptionsPanelRendered == selectedFile # None /\ metadata # None

ProcessButtonEnabled_Always == TRUE

\* <button onClick={handleProcess} disabled={isProcessing}>
ProcessButtonEnabled == ~isProcessing

\* handleFileSelect up to its await (lines 42-54).
HandleFileSelect ==
    /\ FileUploadRendered
    /\ Len(pendingMetadata) < MaxPending
    /\ \E file \in UiFiles :
        /\ processingResult' = None
        /\ convertedFile' = None
        /\ IF ~isValidImage(file)
           THEN /\ uiError' = Some(Literal(ErrSelectValidImage))
                /\ UNCHANGED <<selectedFile, pendingMetadata>>
           ELSE /\ uiError' = None
                /\ selectedFile' = Some(file)
                /\ pendingMetadata' = Append(pendingMetadata, file)
    /\ UNCHANGED <<metadata, isProcessing, pendingProcess>>
    /\ UNCHANGED OtherThanUi

\* const meta = await processor.extractMetadata(file); setMetadata(meta)
ExtractMetadataResolve ==
    /\ \E i \in 1..Len(pendingMetadata) :
        /\ metadata' = Some(extractMetadata(pendingMetadata[i], UiBitmap))
        /\ pendingMetadata' = RemoveAt(pendingMetadata, i)
    /\ UNCHANGED <<selectedFile, processingResult, isProcessing, uiError,
                   pendingProcess, convertedFile>>
    /\ UNCHANGED OtherThanUi

\* catch (err) { setError(`Failed to read image: ${err}`) }
ExtractMetadataReject ==
    /\ \E i \in 1..Len(pendingMetadata) :
        /\ uiError' = Some(ErrorText(ErrFailedToRead, ErrLoadImage))
        /\ pendingMetadata' = RemoveAt(pendingMetadata, i)
    /\ UNCHANGED <<selectedFile, metadata, processingResult, isProcessing,
                   pendingProcess, convertedFile>>
    /\ UNCHANGED OtherThanUi

\* ProcessingOptionsPanel.handleProcess and ImageConverter.handleProcess up to
\* its await (lines 67-77).
HandleProcess ==
    /\ OptionsPanelRendered
    /\ ProcessButtonEnabled
    /\ Len(pendingProcess) < MaxPending
    /\ \E options \in UiOptions :
        IF selectedFile = None
        THEN /\ uiError' = Some(Literal(ErrSelectImageFirst))
             /\ UNCHANGED <<isProcessing, pendingProcess>>
        ELSE /\ isProcessing' = TRUE
             /\ uiError' = None
             /\ pendingProcess' =
                    Append(pendingProcess, [file |-> selectedFile[1], options |-> options])
    /\ UNCHANGED <<selectedFile, metadata, processingResult, pendingMetadata,
                   convertedFile>>
    /\ UNCHANGED OtherThanUi

\* const result = await processor.process(...); setProcessingResult(result);
\* finally setIsProcessing(false)
ProcessResolve ==
    /\ \E i \in 1..Len(pendingProcess) :
        LET call == pendingProcess[i]
        IN  /\ processingResult' =
                   Some(ProcessingResult(call.file, call.options, UiBlob(call.options),
                                         UiBitmap.width, UiBitmap.height))
            /\ convertedFile' = Some(call.file)
            /\ pendingProcess' = RemoveAt(pendingProcess, i)
    /\ isProcessing' = FALSE
    /\ UNCHANGED <<selectedFile, metadata, uiError, pendingMetadata>>
    /\ UNCHANGED OtherThanUi

\* catch (err) { setError(`Processing failed: ${err}`) } finally
\* setIsProcessing(false)
ProcessReject ==
    /\ \E i \in 1..Len(pendingProcess), err \in UiProcessErrors :
        /\ uiError' = Some(ErrorText(ErrProcessingFailed, err))
        /\ pendingProcess' = RemoveAt(pendingProcess, i)
    /\ isProcessing' = FALSE
    /\ UNCHANGED <<selectedFile, metadata, processingResult, pendingMetadata,
                   convertedFile>>
    /\ UNCHANGED OtherThanUi

\* handleReset (lines 99-104)
HandleReset ==
    /\ ResetRendered
    /\ selectedFile' = None
    /\ metadata' = None
    /\ processingResult' = None
    /\ convertedFile' = None
    /\ uiError' = None
    /\ UNCHANGED <<isProcessing, pendingMetadata, pendingProcess>>
    /\ UNCHANGED OtherThanUi

\* The promise of a pending process call settles.
ProcessSettles == ProcessResolve \/ ProcessReject

UiNext ==
    \/ HandleFileSelect
    \/ ExtractMetadataResolve
    \/ ExtractMetadataReject
    \/ HandleProcess
    \/ ProcessResolve
    \/ ProcessReject
    \/ HandleReset

VIdle == vIn = None /\ vOut = None

VInit == vIn \in { Some(f) : f \in ValidateFiles } /\ vOut = None

IsValidImageCall ==
    /\ vOut = None
    /\ vOut' = Some(isValidImage(vIn[1]))
    /\ UNCHANGED vIn
    /\ UNCHANGED OtherThanV

VNext == IsValidImageCall

InitValidate == VInit /\ RsIdle /\ FIdle /\ QIdle /\ CvIdle /\ PIdle /\ CxIdle /\ ChIdle /\ UiIdle

SpecValidate == InitValidate /\ [][VNext]_vars

InitResize == RsInit /\ VIdle /\ FIdle /\ QIdle /\ CvIdle /\ PIdle /\ CxIdle /\ ChIdle /\ UiIdle

SpecResize == InitResize /\ [][RsNext]_vars

InitFactory == FInit /\ VIdle /\ RsIdle /\ QIdle /\ CvIdle /\ PIdle /\ CxIdle /\ ChIdle /\ UiIdle

SpecFactory == InitFactory /\ [][FNext]_vars

InitQuality == QInit /\ VIdle /\ RsIdle /\ FIdle /\ CvIdle /\ PIdle /\ CxIdle /\ ChIdle /\ UiIdle

SpecQuality == InitQuality /\ [][QNext]_vars

InitConvert == CvInit /\ VIdle /\ RsIdle /\ FIdle /\ QIdle /\ PIdle /\ CxIdle /\ ChIdle /\ UiIdle

SpecConvert == InitConvert /\ [][CvNext]_vars

InitComplexity == CxInit /\ VIdle /\ RsIdle /\ FIdle /\ QIdle /\ CvIdle /\ PIdle /\ ChIdle /\ UiIdle

SpecComplexity == InitComplexity /\ [][CxNext]_vars

InitProcess == PInit /\ VIdle /\ RsIdle /\ FIdle /\ QIdle /\ CvIdle /\ CxIdle /\ ChIdle /\ UiIdle

SpecProcess == InitProcess /\ [][PNext]_vars

InitChroma == ChInit /\ VIdle /\ RsIdle /\ FIdle /\ QIdle /\ CvIdle /\ PIdle /\ CxIdle /\ UiIdle

SpecChroma == InitChroma /\ [][ChNext]_vars

InitUi == UiInit /\ VIdle /\ RsIdle /\ FIdle /\ QIdle /\ CvIdle /\ PIdle /\ CxIdle /\ ChIdle

SpecUi == InitUi /\ [][UiNext]_vars

\* A pending process call settles: createImageBitmap, toBlob and the code
\* between them each complete.
SpecUiFair == SpecUi /\ WF_vars(ProcessSettles)

---------------------------------------------------------------------------
\* C4: isValidImage(file) is true exactly when file.type starts with "image/"
\* and the lower-cased last dot-separated piece of file.name is one of jpg,
\* jpeg, png, webp, avif, gif, bmp; it is false for every other file.
SupportedExtensions == {ExtJpg, ExtJpeg, ExtPng, ExtWebp, ExtAvif, ExtGif, ExtBmp}

C4_ValidIffImageTypeAndSupportedExtension ==
    vOut # None =>
        (vOut[1] = TRUE <=>
            /\ startsWith(vIn[1].type, ImagePrefix)
            /\ toLowerCase(pop(split(vIn[1].name))) \in SupportedExtensions)

---------------------------------------------------------------------------
\* The integers nearest to the exact quotient p/q (both neighbours at a tie).
NearestIntegers(p, q) == { k \in 0..(p \div q + 1) : Abs(2 * k * q - 2 * p) <= q }

RsBitmap == rsIn[1].bitmap

RsOptions == rsIn[1].options

RsCanvas == [width |-> rsOut[1].width, height |-> rsOut[1].height]

\* C5: with maintainAspectRatio, whenever a resize is triggered the new
\* dimensions respect both limits: width <= maxWidth when maxWidth is set and
\* height <= maxHeight when maxHeight is set.
C5_AspectResizeWithinLimits ==
    (rsOut # None /\ rsOut[1].resized /\ RsOptions.maintainAspectRatio) =>
        /\ RsOptions.maxWidth # 0 => RsCanvas.width <= RsOptions.maxWidth
        /\ RsOptions.maxHeight # 0 => RsCanvas.height <= RsOptions.maxHeight

\* A resize in which the width pass ran and the height pass then ran as well.
C5_Witness ==
    /\ rsOut # None /\ rsOut[1].resized /\ rsOut[1].status = "resolved"
    /\ RsOptions.maintainAspectRatio
    /\ RsOptions.maxWidth # 0 /\ RsBitmap.width > RsOptions.maxWidth
    /\ RsOptions.maxHeight # 0 /\ RsCanvas.height = RsOptions.maxHeight
    /\ RsCanvas.width < RsOptions.maxWidth

\* The two-pass rule as the claim states it, round being the nearest integer.
TwoPassRule(w, h, maxWidth, maxHeight) ==
    LET pass1 ==
            IF maxWidth # 0 /\ w > maxWidth
            THEN { <<maxWidth, nh>> : nh \in NearestIntegers(maxWidth * h, w) }
            ELSE { <<w, h>> }
        pass2(d) ==
            IF maxHeight # 0 /\ d[2] > maxHeight
            THEN { <<nw, maxHeight>> : nw \in NearestIntegers(maxHeight * w, h) }
            ELSE { d }
    IN  UNION { pass2(d) : d \in pass1 }

\* C6: with maintainAspectRatio the new size follows the two-pass rule (width
\* pass, then height pass, each rounding to the nearest integer with
\* aspect = width / height); 1000x500 with maxWidth 500 gives exactly 500x250,
\* 500x1000 with maxHeight 300 gives exactly 150x300, and a source within both
\* limits keeps its dimensions.
C6_TwoPassRule ==
    (rsOut # None /\ RsOptions.maintainAspectRatio) =>
        /\ <<RsCanvas.width, RsCanvas.height>> \in
               TwoPassRule(RsBitmap.width, RsBitmap.height,
                           RsOptions.maxWidth, RsOptions.maxHeight)
        /\ (RsBitmap = [width |-> 1000, height |-> 500]
               /\ RsOptions.maxWidth = 500 /\ RsOptions.maxHeight = 0)
           => RsCanvas = [width |-> 500, height |-> 250]
        /\ (RsBitmap = [width |-> 500, height |-> 1000]
               /\ RsOptions.maxWidth = 0 /\ RsOptions.maxHeight = 300)
           => RsCanvas = [width |-> 150, height |-> 300]
        /\ ( /\ RsOptions.maxWidth # 0 => RsBitmap.width <= RsOptions.maxWidth
             /\ RsOptions.maxHeight # 0 => RsBitmap.height <= RsOptions.maxHeight )
           => (~rsOut[1].resized /\ RsCanvas = RsBitmap)

\* The first example of the claim, resized.
C6_Witness ==
    /\ rsOut # None /\ rsOut[1].resized /\ rsOut[1].status = "resolved"
    /\ RsOptions.maintainAspectRatio
    /\ RsBitmap = [width |-> 1000, height |-> 500]
    /\ RsOptions.maxWidth = 500 /\ RsOptions.maxHeight = 0
    /\ RsCanvas = [width |-> 500, height |-> 250]

\* C7: without maintainAspectRatio, a triggered resize uses the limits
\* verbatim: width is maxWidth when set, else the source width; height is
\* maxHeight when set, else the source height.
C7_VerbatimTargetDimensions ==
    (rsOut # None /\ rsOut[1].resized /\ ~RsOptions.maintainAspectRatio) =>
        /\ RsCanvas.width =
               IF RsOptions.maxWidth # 0 THEN RsOptions.maxWidth ELSE RsBitmap.width
        /\ RsCanvas.height =
               IF RsOptions.maxHeight # 0 THEN RsOptions.maxHeight ELSE RsBitmap.height

\* Only the width exceeds its limit, and the height is stretched up to maxHeight.
C7_Witness ==
    /\ rsOut # None /\ rsOut[1].resized /\ rsOut[1].status = "resolved"
    /\ ~RsOptions.maintainAspectRatio
    /\ RsOptions.maxWidth # 0 /\ RsBitmap.width > RsOptions.maxWidth
    /\ RsOptions.maxHeight # 0 /\ RsBitmap.height < RsOptions.maxHeight
    /\ RsCanvas = [width |-> RsOptions.maxWidth, height |-> RsOptions.maxHeight]

\* C3: in every reachable state of the registry, initially and after any
\* registerStrategy calls, getStrategy(f) succeeds for each of the six formats
\* f and returns a strategy whose targetFormat is f (supports(f) is true).
C3_EveryFormatHasItsStrategy ==
    \A f \in ImageFormat :
        /\ getStrategy(strategies, f).status = "returned"
        /\ supports(getStrategy(strategies, f).strategy, f)

QScore == qOut[1].complexity[1]

QAnalysed == qOut # None /\ qOut[1].complexity # None

\* C1: the returned quality is a step function of the complexity score:
\* 0.92 when score > 0.70, 0.85 when 0.40 < score <= 0.70, 0.75 when
\* score <= 0.40; a score of exactly 0.70 gives 0.85 and exactly 0.40 gives 0.75.
C1_QualityIsStepFunctionOfScore ==
    QAnalysed =>
        /\ 10 * QScore.num > 7 * QScore.den => qOut[1].quality = 92
        /\ (10 * QScore.num > 4 * QScore.den /\ 10 * QScore.num <= 7 * QScore.den)
               => qOut[1].quality = 85
        /\ 10 * QScore.num <= 4 * QScore.den => qOut[1].quality = 75
        /\ 10 * QScore.num = 7 * QScore.den => qOut[1].quality = 85
        /\ 10 * QScore.num = 4 * QScore.den => qOut[1].quality = 75

\* A bitmap whose score is exactly 0.70 has been analysed.
C1_Witness ==
    QAnalysed /\ 10 * QScore.num = 7 * QScore.den /\ qOut[1].quality = 85

CvPixels == cvIn[1].imageData.pixels

CvFlattened == cvOut[1].flattened[1]

CvJpegFlattened ==
    /\ cvOut # None
    /\ cvIn[1].strategy.class = "JpegConversionStrategy"
    /\ cvOut[1].flattened # None

\* v is round(c * a/255 + 255 * (1 - a/255)): the integer nearest to
\* (c * a + 255 * (255 - a)) / 255.
IsBlendOnWhite(v, c, a) ==
    /\ v \in 0..255
    /\ Abs(510 * v - 2 * (c * a + 255 * (255 - a))) < 255

\* C10: the alpha-flatten pre-pass of the JPEG strategy maps every pixel
\* (r, g, b, a) to (round(r*a/255 + 255*(1 - a/255)), the same for g and b,
\* 255); a fully transparent pixel becomes (255, 255, 255, 255) and a fully
\* opaque pixel is left unchanged.
C10_FlattenBlendsOnWhite ==
    CvJpegFlattened =>
        /\ Len(CvFlattened) = Len(CvPixels)
        /\ \A k \in 1..Len(CvPixels) :
               /\ IsBlendOnWhite(CvFlattened[k].r, CvPixels[k].r, CvPixels[k].a)
               /\ IsBlendOnWhite(CvFlattened[k].g, CvPixels[k].g, CvPixels[k].a)
               /\ IsBlendOnWhite(CvFlattened[k].b, CvPixels[k].b, CvPixels[k].a)
               /\ CvFlattened[k].a = 255
               /\ CvPixels[k].a = 0 => CvFlattened[k] = Pixel(255, 255, 255, 255)
               /\ CvPixels[k].a = 255 => CvFlattened[k] = CvPixels[k]

\* A fully transparent, non-white pixel and a half-transparent pixel flattened
\* in one bitmap.
C10_Witness ==
    /\ CvJpegFlattened
    /\ Len(CvPixels) = 2
    /\ CvPixels[1].a = 0 /\ CvPixels[1].r = 10
    /\ CvFlattened[1] = Pixel(255, 255, 255, 255)
    /\ CvPixels[2].a = 128
    /\ CvFlattened[2].r # CvPixels[2].r /\ CvFlattened[2].a = 255

\* ProcessingOptions.quality is a required number: a caller that supplies
\* one has pinned the quality.
QualityPinned == pOptions[1].quality \in 0..100

\* C2: the quality handed to the conversion strategy is the caller-supplied
\* options.quality unchanged, except when options.optimize is true and the
\* caller did not pin an explicit quality.
C2_PinnedQualityPassesThrough ==
    pQuality # None =>
        (~(pOptions[1].optimize /\ ~QualityPinned) =>
            pQuality[1] = pOptions[1].quality)

PReturned == pc = "returned" /\ result # None

\* C8: the width and height of the ProcessingResult are the dimensions of the
\* (possibly resized) bitmap as read just before convert is called, the bitmap
\* being open then, whatever happens to the bitmap afterwards: at return the
\* bitmap is closed and reads 0x0.
C8_ResultDimensionsReadBeforeConvert ==
    /\ pc = "convert" =>
           /\ ~heap[pResizedBitmap].closed
           /\ resultWidth[1] = heap[pResizedBitmap].width
           /\ resultHeight[1] = heap[pResizedBitmap].height
    /\ PReturned =>
           /\ result[1].width = heap[pResizedBitmap].width
           /\ result[1].height = heap[pResizedBitmap].height
           /\ result[1].width > 0 /\ result[1].height > 0
           /\ pCanvas # None =>
                  /\ result[1].width = pCanvas[1].width
                  /\ result[1].height = pCanvas[1].height

\* A 2x2 image resized to 1x2, returned with the resized bitmap closed.
C8_Witness ==
    /\ PReturned
    /\ pResizedBitmap # pImageBitmap
    /\ heap[pImageBitmap].width = 2 /\ heap[pImageBitmap].height = 2
    /\ heap[pResizedBitmap].closed
    /\ BitmapWidth(heap[pResizedBitmap]) = 0
    /\ result[1].width = 1 /\ result[1].height = 2

EncodingSucceeded == converted # None /\ converted[1].status = "resolved"

\* C9 as stated: a result is returned whenever encoding succeeds, and its
\* compression ratio equals (1 - processedSize/originalSize) * 100 exactly and
\* is negative when processedSize > originalSize.
C9_ResultReturnedWithExactRatio ==
    /\ EncodingSucceeded => PReturned /\ error = None
    /\ PReturned =>
           /\ result[1].compressionRatio * result[1].originalSize
                  = (result[1].originalSize - result[1].processedSize) * 10000
           /\ result[1].processedSize > result[1].originalSize =>
                  result[1].compressionRatio < 0

\* C9 amended: a result is returned whenever encoding succeeds; its
\* compression ratio is (1 - processedSize/originalSize) * 100 rounded to two
\* decimals, and when processedSize > originalSize it is negative unless it
\* rounds to zero.
C9_ResultReturnedWithRoundedRatio ==
    /\ EncodingSucceeded => PReturned /\ error = None
    /\ PReturned =>
           LET o == result[1].originalSize
               p == result[1].processedSize
               ratio == result[1].compressionRatio
           IN  /\ 2 * Abs(ratio * o - (o - p) * 10000) <= o
               /\ p > o => ratio <= 0
               /\ 2 * (p - o) * 10000 >= o => ratio < 0

\* A 300-byte file converted to a 400-byte blob: ratio -33.33.
C9_Witness ==
    /\ PReturned /\ error = None
    /\ result[1].originalSize = 300 /\ result[1].processedSize = 400
    /\ result[1].compressionRatio = -3333

\* convert got a context: its canvas is what toBlob is asked to encode.
CvHandedToEncoder == cvOut # None /\ cvOut[1].error # ErrCanvasContext

CvEncoderInput == cvOut[1].canvas

\* C11: for a JPEG target every pixel of the buffer handed to the encoder has
\* alpha 255, whatever the alpha of the decoded image and whatever the
\* optimize flag, and when the quantization pass runs it runs on the flattened
\* buffer.
C11_JpegEncoderInputIsOpaque ==
    (CvHandedToEncoder /\ cvIn[1].strategy.class = "JpegConversionStrategy") =>
        /\ \A k \in 1..Len(CvEncoderInput) : CvEncoderInput[k].a = 255
        /\ cvIn[1].optimize =>
               /\ cvOut[1].flattened # None
               /\ CvEncoderInput = BaseApplyOptimization(CvFlattened)

\* C12: for GIF and BMP targets, with either value of the optimize flag, the
\* pixels handed to the encoder are exactly the pixels of the bitmap.
C12_GifBmpNeverOptimized ==
    (CvHandedToEncoder
        /\ cvIn[1].strategy.class \in {"GifConversionStrategy", "BmpConversionStrategy"}) =>
        CvEncoderInput = CvPixels

\* A GIF conversion with optimize = true of a bitmap with odd colour bytes,
\* which the quantization would have changed.
C12_Witness ==
    /\ CvHandedToEncoder /\ cvOut[1].status = "resolved"
    /\ cvIn[1].strategy.class = "GifConversionStrategy"
    /\ cvIn[1].optimize
    /\ CvPixels[1].r = 11
    /\ CvEncoderInput[1].r = 11
    /\ BaseApplyOptimization(CvPixels) # CvPixels

\* C13: with optimize = false, for every target format, the pixels handed to
\* the encoder equal the pixels of the bitmap in all four channels.
C13_NoOptimizationWithoutFlag ==
    (CvHandedToEncoder /\ ~cvIn[1].optimize) => CvEncoderInput = CvPixels

\* A JPEG conversion with optimize = false of a bitmap with a half-transparent
\* pixel of odd colour bytes: the canvas keeps it.
C13_Witness ==
    /\ CvHandedToEncoder /\ cvOut[1].status = "resolved"
    /\ cvIn[1].strategy.class = "JpegConversionStrategy"
    /\ ~cvIn[1].optimize
    /\ CvPixels[1].a = 128 /\ CvPixels[1].r = 11
    /\ CvEncoderInput[1] = CvPixels[1]
    /\ JpegApplyOptimization(CvPixels) # CvPixels

CxData == cxIn[1].data

CxScore == cxOut[1]

\* The region is of one colour.
IsUniformRegion == Len(CxData) >= 1 /\ \A k \in 1..Len(CxData) : CxData[k] = CxData[1]

\* The region is a black/white checkerboard: a pixel differs from its left
\* and upper neighbours, and every pixel is black or white.
IsCheckerboard ==
    LET w == cxIn[1].width
        At(x, y) == CxData[y * w + x + 1]
    IN  /\ Len(CxData) = w * cxIn[1].height
        /\ \A k \in 1..Len(CxData) : CxData[k] \in {Gray(0), Gray(255)}
        /\ \A x \in 0..(w - 1), y \in 0..(cxIn[1].height - 1) :
               /\ x > 0 => At(x, y) # At(x - 1, y)
               /\ y > 0 => At(x, y) # At(x, y - 1)

\* C14: the complexity analyzer scores every uniform single-colour region as
\* exactly 0 and every black/white checkerboard of at least 2 pixels as
\* exactly 1.
C14_UniformScoresZeroCheckerboardOne ==
    cxOut # None =>
        /\ IsUniformRegion => CxScore.den # 0 /\ CxScore.num = 0
        /\ (IsCheckerboard /\ Len(CxData) >= 2) =>
               CxScore.den # 0 /\ CxScore.num = CxScore.den

\* A 4x3 checkerboard, whose buffer has equal neighbours where rows wrap,
\* scored 1.
C14_Witness ==
    /\ cxOut # None
    /\ cxIn[1].width = 4 /\ cxIn[1].height = 3
    /\ IsCheckerboard
    /\ CxData[4] = CxData[5]
    /\ CxScore.num = CxScore.den /\ CxScore.den # 0

C16_UnsupportedFormatBeforePixelWork ==
    error = Some(ErrUnsupportedFormat) =>
        /\ heap = <<>>
        /\ pCanvas = None
        /\ pQuality = None
        /\ converted = None

\* C17: process called with a file for which isValidImage is false fails at
\* once with the validation error: no bitmap is decoded, no resize or encode
\* is performed and no ProcessingResult is returned.
C17_InvalidFileFailsImmediately ==
    (pFile # None /\ ~isValidImage(pFile[1])) =>
        /\ pc \in {"start", "thrown"}
        /\ pc = "thrown" => error = Some(ErrInvalidImage)
        /\ heap = <<>> /\ pImageBitmap = 0 /\ pResizedBitmap = 0
        /\ pCanvas = None
        /\ converted = None /\ resultBlob = None
        /\ result = None

\* A file named a.txt of type image/png, rejected by the validation.
C17_Witness ==
    /\ pc = "thrown"
    /\ FileExtension(pFile[1]) = <<"t", "x", "t">>
    /\ pFile[1].type = TypeImagePng
    /\ ~isValidImage(pFile[1])
    /\ error = Some(ErrInvalidImage)
    /\ heap = <<>> /\ result = None

\* The stages of a process call in the order the code reaches them.
StageRank(stage) ==
    CASE stage = "idle" -> 0
      [] stage = "start" -> 0
      [] stage = "loadImage" -> 1
      [] stage = "resizeToBlob" -> 2
      [] stage = "resizeCreateBitmap" -> 3
      [] stage = "convert" -> 4
      [] stage = "returned" -> 5
      [] stage = "thrown" -> 5

\* The call has ended with a complete result or with an error, never both,
\* and holds neither before its end; the strategy is the one of the
\* requested format.
C18_Outcome ==
    /\ pc = "returned" =>
           /\ error = None /\ result # None /\ resultBlob # None
           /\ result[1].blob = resultBlob[1]
           /\ result[1].format = pOptions[1].targetFormat
           /\ result[1].originalSize = pFile[1].size
           /\ result[1].processedSize = resultBlob[1].size
           /\ result[1].width = resultWidth[1]
           /\ result[1].height = resultHeight[1]
           /\ converted[1].status = "resolved"
    /\ pc = "thrown" => error # None /\ result = None /\ resultBlob = None
    /\ pc \notin {"returned", "thrown"} => error = None /\ result = None
    /\ pStrategy # None => pStrategy[1] = InitialStrategies[pOptions[1].targetFormat]
    /\ Len(heap) <= 2

C19_NoSilentDefaultQuality ==
    (qOut # None /\ qOut[1].quality = 85) =>
        /\ qOut[1].complexity # None
        /\ 10 * QScore.num > 4 * QScore.den
        /\ 10 * QScore.num <= 7 * QScore.den

AliveBitmaps == { handle \in DOMAIN heap : ~heap[handle].closed }

\* C20: at most two decoded bitmaps are alive at any time, and the pre-resize
\* bitmap is released as soon as the resized bitmap exists, before the
\* quality analysis, the optimization and the encoding of the resized bitmap.
C20_SourceReleasedOnceResized ==
    /\ Cardinality(AliveBitmaps) <= 2
    /\ (pResizedBitmap # 0 /\ pResizedBitmap # pImageBitmap) =>
           heap[pImageBitmap].closed

\* C21: when process has completed, by returning or by throwing, every
\* ImageBitmap it created has been closed.
C21_EveryBitmapClosedAtExit ==
    pc \in {"returned", "thrown"} =>
        \A handle \in DOMAIN heap : heap[handle].closed

\* C24: resizeImage called on a bitmap of positive width and height with
\* positive limits computes a width and a height that are both at least 1.
C24_ResizeDimensionsPositive ==
    ( /\ rsOut # None /\ rsOut[1].resized
      /\ RsBitmap.width >= 1 /\ RsBitmap.height >= 1
      /\ RsOptions.maxWidth >= 1 /\ RsOptions.maxHeight >= 1 ) =>
        RsCanvas.width >= 1 /\ RsCanvas.height >= 1

\* The colour bytes of the bitmap given to convert; over the inputs of convert
\* they range over every value 0..255.
CvChannelValues ==
    UNION { {CvPixels[k].r, CvPixels[k].g, CvPixels[k].b} : k \in 1..Len(CvPixels) }

\* C29: the direct RGB quantizations are idempotent on stored bytes: for every
\* channel value 0..255, round(c/2)*2 and round(c/4)*4, stored with clamping,
\* return the same byte when applied to their own result; so the buffer a JPEG
\* or PNG conversion with optimize = true hands to the encoder is left
\* unchanged by a second application of its quantization.
C29_DirectQuantizationIdempotent ==
    /\ cvIn # None =>
           \A c \in CvChannelValues :
               /\ BaseQuantize(BaseQuantize(c)) = BaseQuantize(c)
               /\ PngQuantize(PngQuantize(c)) = PngQuantize(c)
    /\ (CvHandedToEncoder /\ cvIn[1].optimize) =>
           /\ cvIn[1].strategy.class = "JpegConversionStrategy" =>
                  BaseApplyOptimization(CvEncoderInput) = CvEncoderInput
           /\ cvIn[1].strategy.class = "PngConversionStrategy" =>
                  applyPngOptimization(CvEncoderInput) = CvEncoderInput

\* A PNG conversion with optimize = true whose quantization moved a byte: 254
\* rounds to 256 and is stored as 255.
C29_Witness ==
    /\ CvHandedToEncoder /\ cvOut[1].status = "resolved"
    /\ cvIn[1].strategy.class = "PngConversionStrategy"
    /\ cvIn[1].optimize
    /\ \E k \in 1..Len(CvPixels) :
           \/ CvPixels[k].r = 254 /\ CvEncoderInput[k].r = 255
           \/ CvPixels[k].g = 254 /\ CvEncoderInput[k].g = 255
           \/ CvPixels[k].b = 254 /\ CvEncoderInput[k].b = 255

\* C30: the WebP quantization changes a channel value 0..255 by at most 1 and
\* the AVIF rounding leaves it unchanged; in a WebP or AVIF conversion with
\* optimize = true the encoder's colour bytes differ from the bitmap's by at
\* most 1 (WebP) or not at all (AVIF), and alpha is the bitmap's alpha.
C30_MinimalVariantsNearIdentity ==
    /\ cvIn # None =>
           \A c \in CvChannelValues :
               /\ Abs(WebpQuantize(c) - c) <= 1
               /\ AvifRound(c) = c
    /\ (CvHandedToEncoder /\ cvIn[1].optimize) =>
           /\ cvIn[1].strategy.class = "WebpConversionStrategy" =>
                  \A k \in 1..Len(CvPixels) :
                      /\ Abs(CvEncoderInput[k].r - CvPixels[k].r) <= 1
                      /\ Abs(CvEncoderInput[k].g - CvPixels[k].g) <= 1
                      /\ Abs(CvEncoderInput[k].b - CvPixels[k].b) <= 1
                      /\ CvEncoderInput[k].a = CvPixels[k].a
           /\ cvIn[1].strategy.class = "AvifConversionStrategy" =>
                  CvEncoderInput = CvPixels

\* A WebP conversion with optimize = true that moved a colour byte by one.
C30_Witness ==
    /\ CvHandedToEncoder /\ cvOut[1].status = "resolved"
    /\ cvIn[1].strategy.class = "WebpConversionStrategy"
    /\ cvIn[1].optimize
    /\ \E k \in 1..Len(CvPixels) :
           /\ Abs(CvEncoderInput[k].r - CvPixels[k].r) = 1
           /\ CvEncoderInput[k].a = CvPixels[k].a

\* The canvas after n applications of the transform, n <= Len(chBefore).
ChAfter(n) == IF n < Len(chBefore) THEN chBefore[n + 1] ELSE chCanvas

\* Two-pixel buffers of distinct colours.
C22_Buffers == { TestBitmap(x, 255, 2).pixels : x \in {0, 1} }

\* C22: the chroma transform is not idempotent: for the non-uniform buffers
\* (0,85,170),(37,122,207) and (1,86,171),(38,123,208), the buffer after two
\* applications differs from the buffer after one.
C22_ChromaTransformNotIdempotent ==
    (Len(chBefore) >= 2 /\ chBefore[1] \in C22_Buffers) =>
        ChAfter(2) # ChAfter(1)

\* The first buffer after two applications: (0,85,170) became (2,84,169) and
\* then (2,84,168).
C22_Witness ==
    /\ Len(chBefore) = 2
    /\ chBefore[1] = TestBitmap(0, 255, 2).pixels
    /\ chBefore[2][1] = Pixel(2, 84, 169, 255)
    /\ chCanvas[1] = Pixel(2, 84, 168, 255)

\* C23: for a JPEG target with optimize = true the pixels handed to the
\* encoder are the chroma transform of the flattened pixels: Cb and Cr rounded
\* to the nearest multiple of 4, Y unquantized, converted back to RGB, rounded
\* and clamped.
C23_JpegOptimizeIsChromaTransform ==
    ( /\ CvHandedToEncoder
      /\ cvIn[1].strategy.class = "JpegConversionStrategy"
      /\ cvIn[1].optimize ) =>
        /\ cvOut[1].flattened # None
        /\ Len(CvEncoderInput) = Len(CvFlattened)
        /\ \A k \in 1..Len(CvFlattened) :
               CvEncoderInput[k] \in applyPsychovisualPixel(CvFlattened[k])

\* C25: a non-null metadata is the metadata of the currently selected file:
\* it is never that of a file selected earlier, and never non-null while
\* selectedFile is null.
C25_MetadataOfSelectedFile ==
    metadata # None =>
        /\ selectedFile # None
        /\ metadata[1] = extractMetadata(selectedFile[1], UiBitmap)

\* C26: a non-null processingResult is the result of converting the currently
\* selected file: a conversion that completes after a reset or after another
\* file was selected does not set it.
C26_ResultOfSelectedFile ==
    processingResult # None =>
        /\ selectedFile # None
        /\ convertedFile = selectedFile

\* C27: whenever error is non-null because the latest conversion failed,
\* processingResult is null.
C27_NoResultWithConversionError ==
    (uiError # None /\ uiError[1] \in { ErrorText(ErrProcessingFailed, err) :
                                           err \in UiProcessErrors }) =>
        processingResult = None

\* C28: isProcessing is true exactly while one process call started by
\* handleProcess is pending; no step starts a process call while it is true;
\* and once true it becomes false again, the pending call settling by
\* resolving or by rejecting.
C28_ProcessingFlagTracksPendingCall ==
    /\ [](isProcessing <=> Len(pendingProcess) = 1)
    /\ [](Len(pendingProcess) <= 1)
    /\ [][Len(pendingProcess') > Len(pendingProcess) => ~isProcessing]_vars
    /\ (isProcessing ~> ~isProcessing)

\* A conversion was started and has been rejected: isProcessing is false
\* again and the panel offers the button.
C28_Witness ==
    /\ ~isProcessing /\ pendingProcess = <<>>
    /\ uiError = Some(ErrorText(ErrProcessingFailed, ErrAvifUnsupported))
    /\ OptionsPanelRendered /\ ProcessButtonEnabled

=============================================================================
